---------------------------- MODULE Spec2Model ----------------------------
(***************************************************************************)
(* Link completion and hover preview of markdown-oxide.                    *)
(*                                                                         *)
(*   src/src/completion/link_completer.rs                                  *)
(*       MarkdownLinkCompleter, WikiLinkCompleter, LinkCompleter,         *)
(*       LinkCompletion, MDDailyNote                                       *)
(*   src/src/hover.rs                                                      *)
(*       hover                                                             *)
(*                                                                         *)
(* Characters are one-character strings, lines are sequences of            *)
(* characters.  Rust offsets are zero-based: the character at Rust offset  *)
(* k of a line is line[k + 1] here, and a Rust range a..b is the pair of   *)
(* its two zero-based ends.                                                *)
(***************************************************************************)
EXTENDS Integers, Sequences, FiniteSets, TLC

VARIABLES
    pc,           \* which step of the request has been taken
    line,         \* vault.select_line(path, line): the cursor's line
    context_path, \* context.path: the document the request is made in
    position,     \* the cursor: [line, character], both zero-based
    lineRefs,     \* Reference::new(line): the complete occurrences on the line
    wiki,         \* Option<WikiLinkCompleter>
    md,           \* Option<MarkdownLinkCompleter>
    candidate,    \* the LinkCompletion an item is being built from
    item,         \* the CompletionItem built from it
    vault,        \* the vault snapshot the request reads
    today,        \* chrono::Local::now().date_naive(), as a day number
    completions,  \* what link_completions / completions returned
    hoverResult,  \* Option<Hover>
    opened,       \* context.opened_files, each with what fs::metadata reads
    clock,        \* chrono::Local::now(), in ticks of the wall clock
    fanout,       \* the conversions of a link_completions call in flight
    runs          \* the link_completions calls that have returned

vars == <<pc, line, context_path, position, lineRefs, wiki, md, candidate, item,
          vault, today, completions, hoverResult, opened, clock, fanout, runs>>

----------------------------------------------------------------------------
(* Option<T> *)

None == [some |-> FALSE]

Some(x) == [some |-> TRUE, val |-> x]

----------------------------------------------------------------------------
(* Bounded sequences and slices *)

RECURSIVE SeqsUpTo(_, _)
SeqsUpTo(S, n) ==
    IF n = 0 THEN {<<>>}
    ELSE LET shorter == SeqsUpTo(S, n - 1)
         IN  shorter \cup {Append(s, x) : s \in {t \in shorter : Len(t) = n - 1}, x \in S}

(* slice.get(a..b): None unless a <= b <= len *)
GetRange(s, a, b) ==
    IF a <= b /\ b <= Len(s)
    THEN Some(SubSeq(s, a + 1, b))
    ELSE None

(* slice.get(k) *)
GetAt(s, k) ==
    IF k < Len(s) THEN Some(s[k + 1]) ELSE None

Contains(s, c) == \E i \in 1..Len(s) : s[i] = c

----------------------------------------------------------------------------
(* Paths and file names.  A path is its final component, a sequence of
   characters; the empty sequence is a path without a file name. *)

RECURSIVE LastIndexOf(_, _)
(* the largest i with s[i] = c, 0 when there is none *)
LastIndexOf(s, c) ==
    IF Len(s) = 0 THEN 0
    ELSE IF s[Len(s)] = c THEN Len(s)
    ELSE LastIndexOf(SubSeq(s, 1, Len(s) - 1), c)

(* Path::file_name *)
FileName(path) == IF path = <<>> THEN None ELSE Some(path)

(* Path::file_stem: the name up to its last ".", the whole name when it has
   none or only a leading one *)
FileStem(path) ==
    IF path = <<>> THEN None
    ELSE LET dot == LastIndexOf(path, ".")
         IN  IF dot <= 1 THEN Some(path) ELSE Some(SubSeq(path, 1, dot - 1))

MdExt == <<".", "m", "d">>

RECURSIVE ReplaceMdExt(_)
(* str::replace(".md", ""): every occurrence, left to right *)
ReplaceMdExt(s) ==
    IF Len(s) = 0 THEN <<>>
    ELSE IF Len(s) >= 3 /\ SubSeq(s, 1, 3) = MdExt
         THEN ReplaceMdExt(SubSeq(s, 4, Len(s)))
         ELSE <<s[1]>> \o ReplaceMdExt(SubSeq(s, 2, Len(s)))

----------------------------------------------------------------------------
(* Dates.  A date is its day number.  The configured daily-note format
   writes a day as one decimal digit; parse_from_str accepts exactly the
   texts the format writes. *)

DayChars == <<"0", "1", "2", "3", "4", "5", "6", "7", "8", "9">>

FormatDate(d) == <<DayChars[d + 1]>>

(* chrono::NaiveDate::parse_from_str(text, dailynote_format).ok() *)
ParseDate(text) ==
    IF Len(text) = 1 /\ \E k \in 1..Len(DayChars) : DayChars[k] = text[1]
    THEN Some((CHOOSE k \in 1..Len(DayChars) : DayChars[k] = text[1]) - 1)
    ELSE None

----------------------------------------------------------------------------
(* Referenceable (crate::vault), as far as these files read it:
     kind      the variant
     path      File, Heading, IndexedBlock: the file's path;
               Unresolved*: the unresolved file name
     text      Heading: heading_text; IndexedBlock: index;
               UnresolvedHeading, UnresovledIndexedBlock: the infile part
     headings  File: the heading texts of mdfile.headings, in order *)

Referenceable(kind, path, text, headings) ==
    [kind |-> kind, path |-> path, text |-> text, headings |-> headings]

UnresolvedKinds == {"UnresovledFile", "UnresolvedHeading", "UnresovledIndexedBlock"}

(* Referenceable::is_unresolved *)
IsUnresolved(r) == r.kind \in UnresolvedKinds

----------------------------------------------------------------------------
(* MDDailyNote::new, link_completer.rs 596-632 *)

TodayLabel == <<"t", "o", "d", "a", "y", ":", " ">>
TomorrowLabel == <<"t", "o", "m", "o", "r", "r", "o", "w", ":", " ">>
YesterdayLabel == <<"y", "e", "s", "t", "e", "r", "d", "a", "y", ":", " ">>

(* lines 614-619: the match on (date - today).num_days() *)
RelativeDayLabel(date, now, file_refname) ==
    LET num_days == date - now
    IN  IF num_days = 0 THEN Some(TodayLabel \o file_refname)
        ELSE IF num_days = 1 /\ date > now THEN Some(TomorrowLabel \o file_refname)
        ELSE IF num_days = 1 /\ date < now THEN Some(YesterdayLabel \o file_refname)
        ELSE None

(* lines 602-610 *)
DailyNoteDate(path) ==
    LET filename == FileName(path)
    IN  IF ~filename.some THEN None
        ELSE ParseDate(ReplaceMdExt(filename.val))

MDDailyNoteNew(referenceable, now) ==
    IF referenceable.kind # "File" THEN None
    ELSE LET date == DailyNoteDate(referenceable.path)
             file_refname == FileStem(referenceable.path)
         IN  IF ~file_refname.some THEN None
             ELSE IF ~date.some THEN None
             ELSE LET label == RelativeDayLabel(date.val, now, file_refname.val)
                  IN  IF ~label.some THEN None
                      ELSE Some([match_string |-> label.val,
                                 ref_name |-> file_refname.val,
                                 referenceable |-> referenceable])

----------------------------------------------------------------------------
(* LinkCompletion, link_completer.rs 423-509 and 574-586.  One record shape
   for the five variants:
     variant        File | Heading | Block | Unresolved | DailyNote
     match_string   the variant's match_string
     infile_ref     Unresolved: its infile_ref; None otherwise
     ref_name       DailyNote: MDDailyNote.ref_name; empty otherwise
     referenceable  the Referenceable it was built from (File: also its
                    mdfile, Heading: also its heading) *)

LinkCompletion(variant, match_string, infile_ref, ref_name, referenceable) ==
    [variant |-> variant, match_string |-> match_string, infile_ref |-> infile_ref,
     ref_name |-> ref_name, referenceable |-> referenceable]

(* lines 457-465: the match on the Referenceable *)
LinkCompletionByKind(r) ==
    LET stem == FileStem(r.path)
    IN  CASE r.kind = "File" ->
                IF ~stem.some THEN None
                ELSE Some(LinkCompletion("File", stem.val, None, <<>>, r))
          [] r.kind = "Heading" ->
                IF ~stem.some THEN None
                ELSE Some(LinkCompletion("Heading", stem.val \o <<"#">> \o r.text,
                                         None, <<>>, r))
          [] r.kind = "IndexedBlock" ->
                IF ~stem.some THEN None
                ELSE Some(LinkCompletion("Block", stem.val \o <<"#", "^">> \o r.text,
                                         None, <<>>, r))
          [] r.kind = "UnresovledFile" ->
                Some(LinkCompletion("Unresolved", r.path, None, <<>>, r))
          [] r.kind = "UnresolvedHeading" ->
                Some(LinkCompletion("Unresolved", r.path \o <<"#">> \o r.text,
                                    Some(r.text), <<>>, r))
          [] r.kind = "UnresovledIndexedBlock" ->
                Some(LinkCompletion("Unresolved", r.path \o <<"#", "^">> \o r.text,
                                    Some(<<"^">> \o r.text), <<>>, r))
          [] OTHER -> None

(* LinkCompletion::new, lines 451-467 *)
LinkCompletionNew(r, now) ==
    LET daily == MDDailyNoteNew(r, now)
    IN  IF daily.some
        THEN Some(LinkCompletion("DailyNote", daily.val.match_string, None,
                                 daily.val.ref_name, r))
        ELSE LinkCompletionByKind(r)

(* Matchable::match_string, lines 574-586 *)
MatchString(completion) == completion.match_string

(* LinkCompletion::refname, lines 501-507 *)
Refname(completion) ==
    IF completion.variant = "DailyNote"
    THEN completion.ref_name
    ELSE MatchString(completion)

(* LinkCompletion::default_completion, lines 469-499.  documentation holds
   the Referenceable handed to preview_referenceable. *)
DefaultCompletion(completion, refname, text_edit, filter_text) ==
    [label |-> refname,
     kind |-> CASE completion.variant = "File" -> "FILE"
                [] completion.variant \in {"Heading", "Block"} -> "REFERENCE"
                [] completion.variant = "Unresolved" -> "KEYWORD"
                [] completion.variant = "DailyNote" -> "EVENT",
     label_details |-> IF completion.variant = "Unresolved"
                       THEN Some(<<"U", "n", "r", "e", "s", "o", "l", "v", "e", "d">>)
                       ELSE None,
     text_edit |-> text_edit,
     filter_text |-> filter_text,
     documentation |-> completion.referenceable,
     insert_text_format |-> None]

----------------------------------------------------------------------------
(* UTF-8: the String a line is collected into is indexed by bytes, the
   Vec<char> it came from by characters. *)

Utf8Len(ch) == IF ch = "é" THEN 2 ELSE 1

RECURSIVE ByteLen(_)
ByteLen(s) == IF Len(s) = 0 THEN 0 ELSE Utf8Len(s[1]) + ByteLen(SubSeq(s, 2, Len(s)))

(* the byte offset at which the character after the first k characters starts *)
ByteOffset(s, k) == ByteLen(SubSeq(s, 1, k))

LineRange(start, end) == [start |-> start, end |-> end]

----------------------------------------------------------------------------
(* PARTIAL_MDLINK_REGEX, link_completer.rs 133-135, applied to the String
   of the characters before the cursor: "[", a display of characters other
   than brackets and parentheses, "](", a path of characters other than
   brackets, parentheses and "#", optionally "#" and an infileref of
   characters other than brackets and parentheses, and the end of the text.
   No class of the pattern admits a bracket or parenthesis, so in a match
   the "(" is the last of these four characters in the text, "]" stands
   right before it and "[" is the one before that; the path ends at the
   first "#" of the tail.  Ranges are regex::Match ranges: byte offsets
   into the String. *)

BracketChars == {"[", "]", "(", ")"}

RECURSIVE LastBracket(_)
LastBracket(s) ==
    IF Len(s) = 0 THEN 0
    ELSE IF s[Len(s)] \in BracketChars THEN Len(s)
    ELSE LastBracket(SubSeq(s, 1, Len(s) - 1))

RECURSIVE FirstIndexOf(_, _)
(* the smallest i with s[i] = c, 0 when there is none *)
FirstIndexOf(s, c) ==
    IF Len(s) = 0 THEN 0
    ELSE IF s[1] = c THEN 1
    ELSE LET rest == FirstIndexOf(SubSeq(s, 2, Len(s)), c)
         IN  IF rest = 0 THEN 0 ELSE rest + 1

Capture(s, from, to) ==
    [text |-> SubSeq(s, from, to),
     range |-> LineRange(ByteOffset(s, from - 1), ByteOffset(s, to))]

PartialMdLinkCaptures(s) ==
    LET n == Len(s)
        paren == LastBracket(s)
        open == IF paren >= 3 THEN LastBracket(SubSeq(s, 1, paren - 2)) ELSE 0
    IN  IF paren >= 3 /\ s[paren] = "(" /\ s[paren - 1] = "]"
           /\ open >= 1 /\ s[open] = "["
        THEN LET hash == FirstIndexOf(SubSeq(s, paren + 1, n), "#")
                 pathEnd == IF hash = 0 THEN n ELSE paren + hash - 1
             IN  Some([full |-> Capture(s, open, n),
                       display |-> Capture(s, open + 1, paren - 2),
                       path |-> Capture(s, paren + 1, pathEnd),
                       infileref |-> IF hash = 0 THEN None
                                     ELSE Some(Capture(s, paren + hash + 1, n))])
        ELSE None

----------------------------------------------------------------------------
(* MarkdownLinkCompleter::construct, link_completer.rs 125-201 *)

LinkReferenceKinds == {"MDFileLink", "MDHeadingLink", "MDIndexedBlockLink"}

(* lines 150-156: the first reference of the line whose character range,
   both ends included, holds the cursor *)
ReferenceUnderCursor(refs, c) ==
    LET hits == {i \in 1..Len(refs) : refs[i].start <= c /\ refs[i].end >= c}
    IN  IF hits = {} THEN None
        ELSE Some(refs[CHOOSE i \in hits : \A k \in hits : i <= k])

(* FullRange with the guard on the ")" arm dropped: it extends the match
   under an occurrence of another kind too *)
FullRange_ExtendsUnderAnyOccurrence(line_chars, c, full, reference_under_cursor) ==
    IF reference_under_cursor.some
       /\ reference_under_cursor.val.kind \in LinkReferenceKinds
    THEN LineRange(reference_under_cursor.val.start, reference_under_cursor.val.end)
    ELSE IF GetAt(line_chars, c) = Some(")")
    THEN LineRange(full.range.start, full.range.end + 1)
    ELSE full.range

(* lines 158-167 *)
FullRange(line_chars, c, full, reference_under_cursor) ==
    IF reference_under_cursor.some
       /\ reference_under_cursor.val.kind \in LinkReferenceKinds
    THEN LineRange(reference_under_cursor.val.start, reference_under_cursor.val.end)
    ELSE IF ~reference_under_cursor.some /\ GetAt(line_chars, c) = Some(")")
    THEN LineRange(full.range.start, full.range.end + 1)
    ELSE full.range

(* lines 170-181 *)
PartialInfileRef(infileref) ==
    IF ~infileref.some THEN None
    ELSE LET chars == infileref.val.text
         IN  IF Len(chars) >= 1 /\ chars[1] = "^"
             THEN Some([kind |-> "BlockRef", text |-> SubSeq(chars, 2, Len(chars)),
                        range |-> infileref.val.range])
             ELSE Some([kind |-> "HeadingRef", text |-> chars,
                        range |-> infileref.val.range])

MdConstruct(line_chars, refs, ln, c) ==
    LET line_to_cursor == GetRange(line_chars, 0, c)
    IN  IF ~line_to_cursor.some THEN None
        ELSE LET captures == PartialMdLinkCaptures(line_to_cursor.val)
             IN  IF ~captures.some THEN None
                 ELSE Some([display |-> captures.val.display,
                            path |-> captures.val.path,
                            infile_ref |-> PartialInfileRef(captures.val.infileref),
                            partial_link |-> captures.val.full,
                            full_range |-> FullRange(line_chars, c, captures.val.full,
                                                     ReferenceUnderCursor(refs, c)),
                            line_nr |-> ln,
                            position |-> [line |-> ln, character |-> c]])

(* completion_text_edit, lines 99-120 *)
MdLinkRefText(refname) ==
    IF Contains(refname, " ") THEN <<"<">> \o refname \o <<">">> ELSE refname

MdCompletionTextEdit(completer, display, refname) ==
    [range |-> [start |-> [line |-> completer.line_nr,
                           character |-> completer.full_range.start],
                end |-> [line |-> completer.line_nr,
                         character |-> completer.full_range.end]],
     new_text |-> <<"[">> \o (IF display.some THEN display.val ELSE <<>>)
                  \o <<"]", "(">> \o MdLinkRefText(refname) \o <<")">>]

(* completion_filter_text, lines 226-235 *)
MdCompletionFilterText(completer, params) ==
    <<"[">> \o completer.display.text \o <<"]", "(">> \o params

----------------------------------------------------------------------------
(* impl Completable<MarkdownLinkCompleter> for LinkCompletion, 512-555 *)

(* lines 519-526 *)
LinkInfileRef(completion) ==
    CASE completion.variant \in {"File", "Block", "DailyNote"} -> None
      [] completion.variant = "Heading" -> Some(completion.referenceable.text)
      [] completion.variant = "Unresolved" -> completion.infile_ref

(* LinkDisplayText with the first heading taken for every candidate built
   from a file, a DailyNote included *)
LinkDisplayText_FirstHeadingOfAnyFile(completion, display) ==
    LET link_infile_ref == LinkInfileRef(completion)
    IN  IF display = <<>> /\ link_infile_ref.some THEN link_infile_ref.val
        ELSE IF display = <<>>
        THEN IF Len(completion.referenceable.headings) > 0
             THEN completion.referenceable.headings[1]
             ELSE <<>>
        ELSE display

(* lines 528-537 *)
LinkDisplayText(completion, display) ==
    LET link_infile_ref == LinkInfileRef(completion)
    IN  IF display = <<>> /\ link_infile_ref.some THEN link_infile_ref.val
        ELSE IF display = <<>>
        THEN IF completion.variant = "File"
                /\ Len(completion.referenceable.headings) > 0
             THEN completion.referenceable.headings[1]
             ELSE <<>>
        ELSE display

(* lines 539-542: format!("${{1:{}}}", link_display_text) *)
SnippetPlaceholder(text) == <<"$", "{", "1", ":">> \o text \o <<"}">>

MdCompletionItem(completion, completer) ==
    LET label == MatchString(completion)
        link_display_text ==
            SnippetPlaceholder(LinkDisplayText(completion, completer.display.text))
        text_edit == MdCompletionTextEdit(completer, Some(link_display_text), label)
        filter_text == MdCompletionFilterText(completer, label)
    IN  [DefaultCompletion(completion, label, text_edit, filter_text)
            EXCEPT !.insert_text_format = Some("SNIPPET")]

----------------------------------------------------------------------------
(* Bounds of the model *)

\* longest wiki line content (without its line terminator) that is enumerated
MaxWikiLen == 5

\* longest link target (path and infile ref) typed on a markdown line
MaxTarget == 2

\* the days are 0..MaxDay
MaxDay == 3

\* most link occurrences in a vault snapshot
MaxReferences == 2

\* the latest modification time of an opened file, in seconds
MaxModified == 2

\* most lines of the document a hover previews
MaxDocLines == 14

\* the last tick of the wall clock
MaxClock == 5

\* most link_completions calls against one snapshot
MaxRuns == 2

----------------------------------------------------------------------------
(* WikiLinkCompleter::construct, link_completer.rs 323-362 *)

(* lines 330-338: the windows of two characters over line_chars[0..=character],
   searched from the cursor back for "[[", keeping the offset of the second
   bracket.  The outer Option is the `?` on get(0..=character). *)
WikiMarkerIndex(line_chars, c) ==
    LET prefix == GetRange(line_chars, 0, c + 1)
    IN  IF ~prefix.some THEN None
        ELSE LET hits == {j \in 1..c : prefix.val[j] = "[" /\ prefix.val[j + 1] = "["}
             IN  IF hits = {} THEN Some(None)
                 ELSE Some(Some(CHOOSE j \in hits : \A k \in hits : k <= j))

(* WikiCheckedIndex without the search for "]" *)
WikiCheckedIndex_NoBracketCheck(line_chars, c, index) ==
    IF ~index.some THEN None
    ELSE LET between == GetRange(line_chars, index.val, c)
         IN  IF ~between.some THEN None
             ELSE Some(index.val)

(* lines 340-346: a "]" between the marker and the cursor rejects it *)
WikiCheckedIndex(line_chars, c, index) ==
    IF ~index.some THEN None
    ELSE LET between == GetRange(line_chars, index.val, c)
         IN  IF ~between.some THEN None
             ELSE IF Contains(between.val, "]") THEN None
             ELSE Some(index.val)

(* lines 348-361 *)
WikiBuild(line_chars, ln, c, index) ==
    IF ~index.some THEN None
    ELSE LET cmp_text == GetRange(line_chars, index.val + 1, c)
         IN  IF ~cmp_text.some THEN None
             ELSE Some([cmp_text |-> cmp_text.val, index |-> index.val,
                        character |-> c, line |-> ln])

WikiConstruct(line_chars, ln, c) ==
    LET found == WikiMarkerIndex(line_chars, c)
    IN  IF ~found.some THEN None
        ELSE WikiBuild(line_chars, ln, c, WikiCheckedIndex(line_chars, c, found.val))

----------------------------------------------------------------------------
(* Reference::new (crate::vault): the complete occurrences on a line, each
   with its kind and its character range [start, end).  The parser lives
   outside these files.  It reports wiki links, then markdown links, then
   tags, each kind in line order, and it accepts fewer texts than the
   shapes below (it has its own character classes for display and path), so
   what it reports for a line is a sub-list of the line's occurrences of
   these shapes:
     markdown link   "[" display "](" target ")"
     wiki link       "[[" target "]]"
     tag             "#" and the characters up to the next blank, at the
                     start of the line or after a blank *)

MdLinkKind(captures) ==
    IF ~captures.infileref.some THEN "MDFileLink"
    ELSE IF Len(captures.infileref.val.text) >= 1 /\ captures.infileref.val.text[1] = "^"
    THEN "MDIndexedBlockLink"
    ELSE "MDHeadingLink"

MdLinkOccurrences(l) ==
    {[kind |-> MdLinkKind(PartialMdLinkCaptures(SubSeq(l, a + 1, b - 1)).val),
      start |-> a, end |-> b] :
        <<a, b>> \in {<<x, y>> \in (0..Len(l)) \X (0..Len(l)) :
                        /\ x + 4 <= y
                        /\ l[x + 1] = "["
                        /\ l[y] = ")"
                        /\ PartialMdLinkCaptures(SubSeq(l, x + 1, y - 1)).some
                        /\ PartialMdLinkCaptures(SubSeq(l, x + 1, y - 1)).val.full.text
                              = SubSeq(l, x + 1, y - 1)}}

WikiLinkOccurrences(l) ==
    {[kind |-> "WikiFileLink", start |-> a, end |-> b] :
        <<a, b>> \in {<<x, y>> \in (0..Len(l)) \X (0..Len(l)) :
                        /\ x + 5 <= y
                        /\ SubSeq(l, x + 1, x + 2) = <<"[", "[">>
                        /\ SubSeq(l, y - 1, y) = <<"]", "]">>
                        /\ \A k \in (x + 3)..(y - 2) : l[k] \notin BracketChars}}

TagEnders == {" ", "#", "\n"}

TagOccurrences(l) ==
    {[kind |-> "Tag", start |-> a, end |-> b] :
        <<a, b>> \in {<<x, y>> \in (0..Len(l)) \X (0..Len(l)) :
                        /\ x + 2 <= y
                        /\ l[x + 1] = "#"
                        /\ (x = 0 \/ l[x] = " ")
                        /\ \A k \in (x + 2)..y : l[k] \notin TagEnders
                        /\ (y = Len(l) \/ l[y + 1] \in TagEnders)}}

ReferenceOrder(r) ==
    100 * (CASE r.kind = "WikiFileLink" -> 0
             [] r.kind \in LinkReferenceKinds -> 1
             [] r.kind = "Tag" -> 2)
    + r.start

RECURSIVE InReferenceOrder(_)
InReferenceOrder(S) ==
    IF S = {} THEN <<>>
    ELSE LET first == CHOOSE r \in S : \A o \in S : ReferenceOrder(r) <= ReferenceOrder(o)
         IN  <<first>> \o InReferenceOrder(S \ {first})

ReferenceNew(l) ==
    {InReferenceOrder(S) :
        S \in SUBSET (WikiLinkOccurrences(l) \cup MdLinkOccurrences(l)
                      \cup TagOccurrences(l))}

----------------------------------------------------------------------------
(* The line numbers a request names *)

LineNrs == {0, 1}

----------------------------------------------------------------------------
(* The Referenceables and the days a request is tried on *)

Days == 0..MaxDay

Txt_a_md == <<"a", ".", "m", "d">>
Txt_a_b_md == <<"a", " ", "b", ".", "m", "d">>

DateFiles ==
    {Referenceable("File", FormatDate(d) \o MdExt, <<>>, <<>>) : d \in Days}

SampleReferenceables ==
    DateFiles \cup
    {Referenceable("File", FormatDate(0) \o MdExt, <<>>, << <<"h">> >>),
     Referenceable("File", Txt_a_md, <<>>, <<>>),
     Referenceable("File", Txt_a_md, <<>>, << <<"h">>, <<"g">> >>),
     Referenceable("File", Txt_a_b_md, <<>>, <<>>),
     Referenceable("File", <<>>, <<>>, <<>>),
     Referenceable("Heading", Txt_a_md, <<"h">>, <<>>),
     Referenceable("Heading", Txt_a_md, <<>>, <<>>),
     Referenceable("Heading", <<>>, <<"h">>, <<>>),
     Referenceable("IndexedBlock", Txt_a_md, <<"1">>, <<>>),
     Referenceable("UnresovledFile", <<"m">>, <<>>, <<>>),
     Referenceable("UnresolvedHeading", <<"m">>, <<"h">>, <<>>),
     Referenceable("UnresovledIndexedBlock", <<"m">>, <<"1">>, <<>>),
     Referenceable("Tag", <<"t">>, <<>>, <<>>)}

(* The candidates LinkCompletion::new makes of the Referenceables, on any
   day the clock may show *)
SampleCompletions ==
    {LinkCompletionNew(r, now).val :
        <<r, now>> \in {<<x, d>> \in SampleReferenceables \X Days :
                          LinkCompletionNew(x, d).some}}

----------------------------------------------------------------------------
(* The markdown completer as a request: a line holding a link being typed,
   construct at a cursor, then one completion item per candidate *)

MdPres == {<<>>, <<"é">>, <<"#">>}
MdDisplays == {<<>>, <<"é">>}
MdTargets == SeqsUpTo({"a", "#", "^"}, MaxTarget)
MdPosts == {<<>>, <<")">>}

MdLines ==
    {pre \o <<"[">> \o display \o <<"]", "(">> \o target \o post :
        pre \in MdPres, display \in MdDisplays, target \in MdTargets, post \in MdPosts}

InitMd ==
    /\ pc = "line"
    /\ line \in MdLines
    /\ lineRefs \in ReferenceNew(line)
    /\ context_path = Txt_a_md
    /\ position = [line |-> 0, character |-> 0]
    /\ wiki = None
    /\ md = None
    /\ candidate = None
    /\ item = None
    /\ vault = None
    /\ today = 0
    /\ completions = <<>>
    /\ hoverResult = None
    /\ opened = <<>>
    /\ clock = 0
    /\ fanout = None
    /\ runs = <<>>

MdConstructStep ==
    /\ pc = "line"
    /\ \E ln \in LineNrs, c \in 0..Len(line) :
          /\ position' = [line |-> ln, character |-> c]
          /\ md' = MdConstruct(line, lineRefs, ln, c)
    /\ pc' = "constructed"
    /\ UNCHANGED <<clock, fanout, runs,
                   line, context_path, lineRefs, wiki, candidate, item, vault, today,
                   completions, hoverResult, opened>>

(* One candidate of completions() turned into its item *)
MdItemStep ==
    /\ pc = "constructed"
    /\ md.some
    /\ \E completion \in SampleCompletions :
          /\ candidate' = Some(completion)
          /\ item' = Some(MdCompletionItem(completion, md.val))
    /\ pc' = "item"
    /\ UNCHANGED <<clock, fanout, runs,
                   line, context_path, position, lineRefs, wiki, md, vault, today,
                   completions, hoverResult, opened>>

NextMd == MdConstructStep \/ MdItemStep

SpecMd == InitMd /\ [][NextMd]_vars

(* WikiLinkCompleter::completion_text_edit, lines 300-317 *)
WikiCompletionTextEdit(completer, display, refname) ==
    [range |-> [start |-> [line |-> completer.line,
                           character |-> completer.index + 1],
                end |-> [line |-> completer.line,
                         character |-> completer.character]],
     new_text |-> refname \o (IF display.some THEN <<"|">> \o display.val ELSE <<>>)]

(* WikiLinkCompleter::completion_filter_text, lines 412-414 *)
WikiCompletionFilterText(completer, params) == params

(* impl Completable<WikiLinkCompleter> for LinkCompletion, lines 558-571 *)
WikiCompletionItem(completion, completer) ==
    LET refname == Refname(completion)
        match_text == MatchString(completion)
        text_edit == WikiCompletionTextEdit(completer, None, refname)
        filter_text == WikiCompletionFilterText(completer, match_text)
    IN  DefaultCompletion(completion, match_text, text_edit, filter_text)

----------------------------------------------------------------------------
(* The wiki recognizer as a request: a line of the document, construct at a
   cursor, then one completion item per candidate *)

WikiAlphabet == {"[", "]", "a"}

(* The line of the worked example: [[a]] [[b *)
WikiExampleLine == <<"[", "[", "a", "]", "]", " ", "[", "[", "b">>

WikiContents == SeqsUpTo(WikiAlphabet, MaxWikiLen) \cup {WikiExampleLine}

(* A line of a rope keeps its terminator; the last line of a document that
   does not end in a newline has none. *)
WikiLines == WikiContents \cup {Append(s, "\n") : s \in WikiContents}

ContentLen(l) == IF Len(l) > 0 /\ l[Len(l)] = "\n" THEN Len(l) - 1 ELSE Len(l)

InitWiki ==
    /\ pc = "line"
    /\ line \in WikiLines
    /\ context_path = Txt_a_md
    /\ position = [line |-> 0, character |-> 0]
    /\ lineRefs = <<>>
    /\ wiki = None
    /\ md = None
    /\ candidate = None
    /\ item = None
    /\ vault = None
    /\ today = 0
    /\ completions = <<>>
    /\ hoverResult = None
    /\ opened = <<>>
    /\ clock = 0
    /\ fanout = None
    /\ runs = <<>>

WikiConstructStep ==
    /\ pc = "line"
    /\ \E ln \in LineNrs, c \in 0..ContentLen(line) :
          /\ position' = [line |-> ln, character |-> c]
          /\ wiki' = WikiConstruct(line, ln, c)
    /\ pc' = "constructed"
    /\ UNCHANGED <<clock, fanout, runs,
                   line, context_path, lineRefs, md, candidate, item, vault, today,
                   completions, hoverResult, opened>>

WikiItemStep ==
    /\ pc = "constructed"
    /\ wiki.some
    /\ \E completion \in SampleCompletions :
          /\ candidate' = Some(completion)
          /\ item' = Some(WikiCompletionItem(completion, wiki.val))
    /\ pc' = "item"
    /\ UNCHANGED <<clock, fanout, runs,
                   line, context_path, position, lineRefs, wiki, md, vault, today,
                   completions, hoverResult, opened>>

NextWiki == WikiConstructStep \/ WikiItemStep

SpecWiki == InitWiki /\ [][NextWiki]_vars

----------------------------------------------------------------------------
(* C5 *)

(* A "[[" whose two brackets both lie before the cursor c (Rust offsets
   i and i + 1, i + 2 <= c) with no "]" between it and the cursor. *)
OpenMarkerAt(l, c, i) ==
    /\ 0 <= i /\ i + 2 <= c /\ c <= Len(l)
    /\ l[i + 1] = "[" /\ l[i + 2] = "["
    /\ \A k \in (i + 2)..(c - 1) : l[k + 1] # "]"

OpenMarkers(l, c) == {i \in 0..Len(l) : OpenMarkerAt(l, c, i)}

NearestOpenMarker(l, c) ==
    CHOOSE i \in OpenMarkers(l, c) : \A k \in OpenMarkers(l, c) : k <= i

(* C5 (the claim as stated): for every line and every cursor offset from 0 to
   the line's length, the end of the line included, construct succeeds
   exactly when some "[[" lies before the cursor with no "]" between it and
   the cursor; it then uses the nearest such marker and captures exactly the
   characters between the marker and the cursor. *)
C5_WikiRecognizerAsClaimed ==
    pc = "constructed" =>
        /\ wiki.some <=> OpenMarkers(line, position.character) # {}
        /\ wiki.some =>
              /\ wiki.val.index = NearestOpenMarker(line, position.character) + 1
              /\ wiki.val.cmp_text =
                    SubSeq(line, NearestOpenMarker(line, position.character) + 3, position.character)

(* The worked example of C5: [[a]] [[b with the cursor at the end of the
   line, where the line is the last of its document. *)
C5_ExampleAsClaimed ==
    (pc = "constructed" /\ line = WikiExampleLine /\ position.character = Len(line)) =>
        (wiki.some /\ wiki.val.index = 7 /\ wiki.val.cmp_text = <<"b">>)

C5_Witness ==
    /\ pc = "constructed"
    /\ wiki.some
    /\ Len(wiki.val.cmp_text) >= 2

----------------------------------------------------------------------------
(* The vault snapshot (crate::vault), as far as link_completions reads it:
     nodes       the resolved Referenceables of the documents, in order
     references  the link occurrences: the document and range of each, and
                 the name and infile part it is written with
   A reference resolves to the nodes its text names; a text that names no
   node stands for one unresolved Referenceable, the same for every
   occurrence of the text. *)

ReferenceTexts ==
    {[name |-> <<"a">>, infile |-> None],
     [name |-> <<"m">>, infile |-> None],
     [name |-> <<"m">>, infile |-> Some(<<"h">>)]}

Docs == {Txt_a_md, FormatDate(0) \o MdExt}

(* the i-th occurrence of the vault stands on line 0 of its document, on
   the characters 3(i-1) and 3(i-1)+1, its range closed at both ends *)
ReferenceAt(i, doc, text) ==
    [path |-> doc, line |-> 0, start |-> 3 * (i - 1), end |-> 3 * (i - 1) + 1,
     text |-> text]

ReferenceLists ==
    {[i \in 1..Len(choice) |-> ReferenceAt(i, choice[i][1], choice[i][2])] :
        choice \in SeqsUpTo(Docs \X ReferenceTexts, MaxReferences)}

ResolvedNodes ==
    <<Referenceable("File", Txt_a_md, <<>>, << <<"h">>, <<"g">> >>),
      Referenceable("Heading", Txt_a_md, <<"h">>, <<>>),
      Referenceable("IndexedBlock", Txt_a_md, <<"1">>, <<>>),
      Referenceable("File", <<>>, <<>>, <<>>),
      Referenceable("Tag", <<"t">>, <<>>, <<>>)>>
    \o [d \in 1..(MaxDay + 1) |->
            Referenceable("File", FormatDate(d - 1) \o MdExt, <<>>, <<>>)]

(* Referenceable::matches_reference *)
NamedBy(r, text) ==
    /\ FileStem(r.path) = Some(text.name)
    /\ \/ r.kind = "File" /\ ~text.infile.some
       \/ r.kind = "Heading" /\ text.infile = Some(r.text)

UnresolvedFor(text) ==
    IF text.infile.some
    THEN Referenceable("UnresolvedHeading", text.name, text.infile.val, <<>>)
    ELSE Referenceable("UnresovledFile", text.name, <<>>, <<>>)

IsResolvedText(v, text) == \E i \in 1..Len(v.nodes) : NamedBy(v.nodes[i], text)

RECURSIVE UnresolvedNodes(_, _, _)
(* one unresolved Referenceable per unresolved text, in order of first
   occurrence *)
UnresolvedNodes(v, refs, seen) ==
    IF Len(refs) = 0 THEN <<>>
    ELSE LET text == refs[1].text
             rest == SubSeq(refs, 2, Len(refs))
         IN  IF IsResolvedText(v, text) \/ text \in seen
             THEN UnresolvedNodes(v, rest, seen)
             ELSE <<UnresolvedFor(text)>> \o UnresolvedNodes(v, rest, seen \cup {text})

(* Vault::select_referenceable_nodes(None) *)
SelectReferenceableNodes(v) == v.nodes \o UnresolvedNodes(v, v.references, {})

(* Vault::select_reference_at_position *)
SelectReferenceAtPosition(v, doc, pos) ==
    LET hits == {i \in 1..Len(v.references) :
                    /\ v.references[i].path = doc
                    /\ v.references[i].line = pos.line
                    /\ v.references[i].start <= pos.character
                    /\ v.references[i].end >= pos.character}
    IN  IF hits = {} THEN None
        ELSE Some(v.references[CHOOSE i \in hits : \A k \in hits : i <= k])

(* Vault::select_referenceables_for_reference *)
SelectReferenceablesForReference(v, reference) ==
    IF IsResolvedText(v, reference.text)
    THEN SelectSeq(v.nodes, LAMBDA r : NamedBy(r, reference.text))
    ELSE <<UnresolvedFor(reference.text)>>

(* Vault::select_references_for_referenceable *)
SelectReferencesForReferenceable(v, r) ==
    Some(SelectSeq(v.references,
                   LAMBDA ref : IF IsUnresolved(r)
                                THEN ~IsResolvedText(v, ref.text)
                                     /\ UnresolvedFor(ref.text) = r
                                ELSE NamedBy(r, ref.text)))

----------------------------------------------------------------------------
(* LinkCompleter::link_completions, link_completer.rs 42-74 *)

(* lines 48-52 *)
UnresolvedUnderCursor(v, doc, pos) ==
    LET reference == SelectReferenceAtPosition(v, doc, pos)
        targets == IF reference.some
                   THEN SelectReferenceablesForReference(v, reference.val)
                   ELSE <<>>
        hits == {i \in 1..Len(targets) : IsUnresolved(targets[i])}
    IN  IF hits = {} THEN None
        ELSE Some(targets[CHOOSE i \in hits : \A k \in hits : i <= k])

(* SingleUnresolvedUnderCursor without the test of the reference count *)
SingleUnresolvedUnderCursor_AnyCount(v, doc, pos) ==
    LET unresolved_under_cursor == UnresolvedUnderCursor(v, doc, pos)
    IN  IF ~unresolved_under_cursor.some THEN None
        ELSE LET references ==
                     SelectReferencesForReferenceable(v, unresolved_under_cursor.val)
             IN  IF ~references.some THEN None
                 ELSE unresolved_under_cursor

(* lines 54-62 *)
SingleUnresolvedUnderCursor(v, doc, pos) ==
    LET unresolved_under_cursor == UnresolvedUnderCursor(v, doc, pos)
    IN  IF ~unresolved_under_cursor.some THEN None
        ELSE LET references ==
                     SelectReferencesForReferenceable(v, unresolved_under_cursor.val)
             IN  IF ~references.some THEN None
                 ELSE IF Len(references.val) = 1 THEN unresolved_under_cursor
                 ELSE None

RECURSIVE FlatMapNew_StopsAtFirstFailure(_, _)
(* the conversions collected up to the first one that fails, as map_while
   would where flat_map is written *)
FlatMapNew_StopsAtFirstFailure(referenceables, now) ==
    IF Len(referenceables) = 0 THEN <<>>
    ELSE LET made == LinkCompletionNew(referenceables[1], now)
         IN  IF made.some
             THEN <<made.val>>
                  \o FlatMapNew_StopsAtFirstFailure(
                         SubSeq(referenceables, 2, Len(referenceables)), now)
             ELSE <<>>

RECURSIVE FlatMapNew(_, _)
(* lines 70-71: flat_map(LinkCompletion::new) collected in order *)
FlatMapNew(referenceables, now) ==
    IF Len(referenceables) = 0 THEN <<>>
    ELSE LET made == LinkCompletionNew(referenceables[1], now)
         IN  (IF made.some THEN <<made.val>> ELSE <<>>)
             \o FlatMapNew(SubSeq(referenceables, 2, Len(referenceables)), now)

LinkCompletions(v, doc, pos, now) ==
    LET referenceables == SelectReferenceableNodes(v)
        single_unresolved_under_cursor == SingleUnresolvedUnderCursor(v, doc, pos)
    IN  FlatMapNew(SelectSeq(referenceables,
                             LAMBDA r : Some(r) # single_unresolved_under_cursor),
                   now)

----------------------------------------------------------------------------
(* Candidate generation as a request: a vault snapshot and a day, then
   link_completions at a cursor *)

InitLinks ==
    /\ pc = "snapshot"
    /\ vault \in {[nodes |-> ResolvedNodes, references |-> refs] : refs \in ReferenceLists}
    /\ today \in Days
    /\ line = <<>>
    /\ context_path = Txt_a_md
    /\ position = [line |-> 0, character |-> 0]
    /\ lineRefs = <<>>
    /\ wiki = None
    /\ md = None
    /\ candidate = None
    /\ item = None
    /\ completions = <<>>
    /\ hoverResult = None
    /\ opened = <<>>
    /\ clock = 0
    /\ fanout = None
    /\ runs = <<>>

LinkCompletionsStep ==
    /\ pc = "snapshot"
    /\ \E doc \in Docs, ln \in LineNrs, c \in 0..(3 * MaxReferences - 1) :
          /\ context_path' = doc
          /\ position' = [line |-> ln, character |-> c]
          /\ completions' = LinkCompletions(vault, doc, [line |-> ln, character |-> c], today)
    /\ pc' = "completions"
    /\ UNCHANGED <<clock, fanout, runs,
                   line, lineRefs, wiki, md, candidate, item, vault, today, hoverResult, opened>>

NextLinks == LinkCompletionsStep

SpecLinks == InitLinks /\ [][NextLinks]_vars

----------------------------------------------------------------------------
(* WikiLinkCompleter::completions, link_completer.rs 364-409 *)

RECURSIVE DecimalString(_)
(* u64::to_string *)
DecimalString(n) ==
    IF n < 10 THEN <<DayChars[n + 1]>>
    ELSE DecimalString(n \div 10) \o <<DayChars[(n % 10) + 1]>>

(* SystemTime, in seconds from the epoch *)
UnixEpoch == 0

(* OrderedCompletion::new (super::matcher) *)
OrderedCompletion(completion, rank) == [completion |-> completion, rank |-> rank]

(* lines 372-377: the modification time read for an opened file, the epoch
   when it cannot be read *)
Stamped(files) ==
    [i \in 1..Len(files) |->
        [path |-> files[i].path,
         modified |-> IF files[i].modified.some THEN files[i].modified.val
                      ELSE UnixEpoch]]

RECURSIVE InsertByModified(_, _)
InsertByModified(sorted, x) ==
    IF Len(sorted) = 0 THEN <<x>>
    ELSE IF sorted[Len(sorted)].modified <= x.modified THEN Append(sorted, x)
    ELSE Append(InsertByModified(SubSeq(sorted, 1, Len(sorted) - 1), x),
                sorted[Len(sorted)])

RECURSIVE SortedByModified(_)
(* line 378: sorted_by_key(modified), a stable sort in increasing order *)
SortedByModified(stamped) ==
    IF Len(stamped) = 0 THEN <<>>
    ELSE InsertByModified(SortedByModified(SubSeq(stamped, 1, Len(stamped) - 1)),
                          stamped[Len(stamped)])

(* Vault::select_referenceable_nodes(Some(path)): the nodes of one document *)
SelectReferenceableNodesOf(v, doc) == SelectSeq(v.nodes, LAMBDA r : r.path = doc)

RECURSIVE OrderedNew(_, _, _)
(* lines 385-391 *)
OrderedNew(referenceables, now, rank) ==
    IF Len(referenceables) = 0 THEN <<>>
    ELSE LET made == LinkCompletionNew(referenceables[1], now)
         IN  (IF made.some THEN <<OrderedCompletion(made.val, rank)>> ELSE <<>>)
             \o OrderedNew(SubSeq(referenceables, 2, Len(referenceables)), now, rank)

RECURSIVE RecentCompletions(_, _, _)
(* lines 379-395: duration_since(UNIX_EPOCH) fails for a time before the
   epoch, and the document then gives nothing *)
RecentCompletions(v, sorted, now) ==
    IF Len(sorted) = 0 THEN <<>>
    ELSE (IF sorted[1].modified < UnixEpoch THEN <<>>
          ELSE OrderedNew(SelectReferenceableNodesOf(v, sorted[1].path), now,
                          DecimalString(sorted[1].modified - UnixEpoch)))
         \o RecentCompletions(v, SubSeq(sorted, 2, Len(sorted)), now)

RECURSIVE IsSubsequence(_, _)
IsSubsequence(needle, text) ==
    IF Len(needle) = 0 THEN TRUE
    ELSE IF Len(text) = 0 THEN FALSE
    ELSE IF needle[1] = text[1]
    THEN IsSubsequence(SubSeq(needle, 2, Len(needle)), SubSeq(text, 2, Len(text)))
    ELSE IsSubsequence(needle, SubSeq(text, 2, Len(text)))

(* fuzzy_match_completions (super::matcher): the candidates the filter text
   matches, ranked; an empty filter text matches all.  The score is the
   matcher's own; equal scores keep the order of discovery. *)
FuzzyMatchCompletions(filter_text, link_completions) ==
    LET kept == SelectSeq(link_completions,
                          LAMBDA c : IsSubsequence(filter_text, MatchString(c)))
    IN  [i \in 1..Len(kept) |-> OrderedCompletion(kept[i], DecimalString(i))]

WikiCompletions(completer, v, files, doc, now) ==
    IF completer.cmp_text = <<>>
    THEN RecentCompletions(v, SortedByModified(Stamped(files)), now)
    ELSE IF ~Contains(completer.cmp_text, "]")
    THEN FuzzyMatchCompletions(
             completer.cmp_text,
             LinkCompletions(v, doc,
                             [line |-> completer.line, character |-> completer.character],
                             now))
    ELSE <<>>

----------------------------------------------------------------------------
(* The wiki completions as a request: the opened files and what the file
   system says of each, then completions for a constructed completer *)

OpenDocs == {Txt_a_md, FormatDate(0) \o MdExt, FormatDate(1) \o MdExt}

(* the modification time of a file: unreadable, or a second from one before
   the epoch on *)
ModifiedTimes == {None} \cup {Some(t) : t \in (-1)..MaxModified}

OpenedFiles ==
    {files \in SeqsUpTo({[path |-> d, modified |-> t] : d \in OpenDocs, t \in ModifiedTimes},
                        Cardinality(OpenDocs)) :
        \A i, j \in 1..Len(files) : i # j => files[i].path # files[j].path}

(* the completers construct makes of the lines "[[", "[[a" and "[[h" with
   the cursor before the line's terminator *)
TypedFragments == {<<>>, <<"a">>, <<"h">>}

InitRecent ==
    /\ pc = "opened"
    /\ opened \in OpenedFiles
    /\ clock = 0
    /\ fanout = None
    /\ runs = <<>>
    /\ vault = [nodes |-> ResolvedNodes, references |-> <<>>]
    /\ today \in {0, MaxDay}
    /\ line = <<>>
    /\ context_path = Txt_a_md
    /\ position = [line |-> 0, character |-> 0]
    /\ lineRefs = <<>>
    /\ wiki = None
    /\ md = None
    /\ candidate = None
    /\ item = None
    /\ completions = <<>>
    /\ hoverResult = None

WikiCompletionsStep ==
    /\ pc = "opened"
    /\ \E typed \in TypedFragments :
          /\ line' = <<"[", "[">> \o typed \o <<"\n">>
          /\ position' = [line |-> 0, character |-> 2 + Len(typed)]
          /\ wiki' = WikiConstruct(<<"[", "[">> \o typed \o <<"\n">>, 0, 2 + Len(typed))
          /\ completions' =
                WikiCompletions(WikiConstruct(<<"[", "[">> \o typed \o <<"\n">>, 0,
                                              2 + Len(typed)).val,
                                vault, opened, context_path, today)
    /\ pc' = "wikicompletions"
    /\ UNCHANGED <<clock, fanout, runs,
                   context_path, lineRefs, md, candidate, item, vault, today,
                   hoverResult, opened>>

NextRecent == WikiCompletionsStep

SpecRecent == InitRecent /\ [][NextRecent]_vars

----------------------------------------------------------------------------
(* C4 *)

(* the opened file a returned candidate comes from *)
DocOf(i) == completions[i].completion.referenceable.path

ModifiedOf(doc) ==
    (CHOOSE f \in {opened[k] : k \in 1..Len(opened)} : f.path = doc).modified

(* doc p is at least as recently modified as doc q, an unreadable time
   being the oldest *)
AtLeastAsRecent(p, q) ==
    \/ ~ModifiedOf(q).some
    \/ ModifiedOf(p).some /\ ModifiedOf(p).val >= ModifiedOf(q).val

(* C4 (the claim as stated): with an empty captured fragment the returned
   candidates are grouped by opened document, the documents in order of
   last-modified time, most recent first; a document whose modification
   time cannot be read is ordered as the oldest (last) and still
   contributes its candidates. *)
C4_RecentFirst ==
    (pc = "wikicompletions" /\ wiki.val.cmp_text = <<>>) =>
        /\ \A i, j \in 1..Len(completions) :
              (i < j /\ DocOf(i) # DocOf(j)) => AtLeastAsRecent(DocOf(i), DocOf(j))
        /\ \A i, j, k \in 1..Len(completions) :
              (i < j /\ j < k /\ DocOf(i) = DocOf(k)) => DocOf(j) = DocOf(i)
        /\ \A f \in 1..Len(opened) :
              ~opened[f].modified.some =>
                  \E i \in 1..Len(completions) : DocOf(i) = opened[f].path

(* three opened documents, one of them with an unreadable time *)
C4_Witness ==
    /\ pc = "wikicompletions"
    /\ wiki.val.cmp_text = <<>>
    /\ Len(opened) = 3
    /\ \E f \in 1..3 : ~opened[f].modified.some
    /\ \E f \in 1..3 : opened[f].modified = Some(MaxModified)
    /\ Len(completions) = 5

----------------------------------------------------------------------------
(* hover, hover.rs 9-52.  The vault snapshot as far as hover reads it:
     docs        the lines of each document, by path
     nodes       select_referenceable_nodes(None): each Referenceable with
                 its kind, its document and its anchor line range
     references  the occurrences of each document, in order, each with its
                 kind (Link or another), its range and the name it is
                 written with *)

HoverExtraLines == 10

(* Vault::select_line *)
SelectLine(v, doc, ln) ==
    IF doc \in DOMAIN v.docs /\ ln >= 0 /\ ln < Len(v.docs[doc])
    THEN Some(v.docs[doc][ln + 1])
    ELSE None

(* Vault::select_references(Some(path)) *)
SelectReferences(v, doc) ==
    IF doc \in DOMAIN v.references THEN Some(v.references[doc]) ELSE None

(* Referenceable::is_reference *)
IsReference(node, reference) == node.name = reference.name

(* lines 14-19: line and character bounds, both ends included *)
HoverContains(reference, cursor) ==
    /\ reference.range.start.line <= cursor.line
    /\ reference.range.end.line >= cursor.line
    /\ reference.range.start.character <= cursor.character
    /\ reference.range.end.character >= cursor.character

(* Iterator::find: the first element whose index is among hits *)
FirstWhere(seq, hits) ==
    IF hits = {} THEN None
    ELSE Some(seq[CHOOSE i \in hits : \A k \in hits : i <= k])

(* the anchor's first line with HoverExtraLines added, where the anchor's
   last line is meant *)
HoverLastLine_FromStart(range) == range.start.line + HoverExtraLines

(* line 28: the last line of the window *)
HoverLastLine(range) == range.end.line + HoverExtraLines

RECURSIVE HoverLinesText(_, _, _, _)
(* lines 28-32: the lines from ln to last that the vault has, joined *)
HoverLinesText(v, doc, ln, last) ==
    IF ln > last THEN <<>>
    ELSE (IF SelectLine(v, doc, ln).some THEN SelectLine(v, doc, ln).val ELSE <<>>)
         \o HoverLinesText(v, doc, ln + 1, last)

FilePreview ==
    <<"F", "i", "l", "e", " ", "P", "r", "e", "v", "i", "e", "w", ":", "\n", "-", "-", "-", "\n", "\n">>
HeadingPreview ==
    <<"H", "e", "a", "d", "i", "n", "g", " ", "P", "r", "e", "v", "i", "e", "w", ":", "\n", "-", "-", "-", "\n", "\n">>
BlockPreview ==
    <<"B", "l", "o", "c", "k", " ", "P", "r", "e", "v", "i", "e", "w", ":", "\n", "-", "-", "-", "\n", "\n">>
Preview ==
    <<"P", "r", "e", "v", "i", "e", "w", ":", "\n", "-", "-", "-", "\n", "\n">>

(* lines 37-42 *)
HoverValue(referenceable, links_text) ==
    (CASE referenceable.kind = "File" -> FilePreview
       [] referenceable.kind = "Heading" -> HeadingPreview
       [] referenceable.kind = "IndexedBlock" -> BlockPreview
       [] OTHER -> Preview)
    \o links_text

Hover(v, cursor_position, doc) ==
    LET links == SelectReferences(v, doc)
    IN  IF ~links.some THEN None
        ELSE LET reference ==
                     FirstWhere(links.val,
                                {i \in 1..Len(links.val) :
                                    HoverContains(links.val[i], cursor_position)})
             IN  IF ~reference.some THEN None
                 ELSE IF reference.val.kind # "Link" THEN None
                 ELSE LET referenceable ==
                              FirstWhere(v.nodes,
                                         {i \in 1..Len(v.nodes) :
                                            IsReference(v.nodes[i], reference.val)})
                      IN  IF ~referenceable.some THEN None
                          ELSE LET range == referenceable.val.range
                                   links_text ==
                                       HoverLinesText(v, referenceable.val.path,
                                                      range.start.line,
                                                      HoverLastLine(range))
                               IN  Some([kind |-> "Markdown",
                                         value |-> HoverValue(referenceable.val,
                                                              links_text)])

----------------------------------------------------------------------------
(* Hover as a request: a vault snapshot, then hover at a cursor *)

Txt_t_md == <<"t", ".", "m", "d">>
Txt_c_md == <<"c", ".", "m", "d">>
Txt_q_md == <<"q", ".", "m", "d">>
Txt_z_md == <<"z", ".", "m", "d">>

(* line k of a document: the document's letter, the line's number and the
   line terminator *)
DocLines(letter, n) == [k \in 1..n |-> <<letter>> \o DecimalString(k - 1) \o <<"\n">>]

LinesRange(first, last) ==
    [start |-> [line |-> first, character |-> 0],
     end |-> [line |-> last, character |-> 0]]

HoverNode(kind, doc, first, last, name) ==
    [kind |-> kind, path |-> doc, range |-> LinesRange(first, last), name |-> name]

HoverReference(kind, ln, first, last, name) ==
    [kind |-> kind, name |-> name,
     range |-> [start |-> [line |-> ln, character |-> first],
                end |-> [line |-> ln, character |-> last]]]

(* The target document t.md has n lines.  Its first node, named x, has the
   given kind and anchor; a heading y follows, and the unresolved z, whose
   document does not exist.  c.md holds two occurrences on line 1, the
   first of the given kind and name, that meet at character 4. *)
HoverVault(n, kind, first, last, refKind, refName) ==
    [docs |-> (Txt_t_md :> DocLines("t", n)) @@ (Txt_c_md :> DocLines("c", 3)),
     nodes |-> <<HoverNode(kind, Txt_t_md, first, last, "x"),
                 HoverNode("Heading", Txt_t_md, 0, 0, "y"),
                 HoverNode("UnresovledFile", Txt_z_md, 0, 0, "z")>>,
     references |-> (Txt_c_md :> <<HoverReference(refKind, 1, 2, 4, refName),
                                    HoverReference("Link", 1, 4, 6, "y")>>)
                    @@ (Txt_t_md :> <<>>)]

HoverVaults ==
    {HoverVault(n, kind, first, last, refKind, refName) :
        n \in 1..MaxDocLines,
        kind \in {"File", "Heading", "IndexedBlock", "Footnote"},
        first \in {0, 2}, last \in 0..3,
        refKind \in {"Link", "Tag"},
        refName \in {"x", "y", "z", "w"}}

InitHover ==
    /\ pc = "snapshot"
    /\ vault \in {v \in HoverVaults :
                    /\ v.nodes[1].range.start.line <= v.nodes[1].range.end.line
                    /\ v.nodes[1].range.end.line <= v.nodes[1].range.start.line + 1
                    /\ v.nodes[1].range.end.line < Len(v.docs[Txt_t_md])}
    /\ today = 0
    /\ line = <<>>
    /\ context_path = Txt_c_md
    /\ position = [line |-> 0, character |-> 0]
    /\ lineRefs = <<>>
    /\ wiki = None
    /\ md = None
    /\ candidate = None
    /\ item = None
    /\ completions = <<>>
    /\ hoverResult = None
    /\ opened = <<>>
    /\ clock = 0
    /\ fanout = None
    /\ runs = <<>>

HoverStep ==
    /\ pc = "snapshot"
    /\ \E doc \in {Txt_c_md, Txt_q_md}, ln \in 0..2, c \in 1..7 :
          /\ context_path' = doc
          /\ position' = [line |-> ln, character |-> c]
          /\ hoverResult' = Hover(vault, [line |-> ln, character |-> c], doc)
    /\ pc' = "hovered"
    /\ UNCHANGED <<clock, fanout, runs,
                   line, lineRefs, wiki, md, candidate, item, vault, today,
                   completions, opened>>

NextHover == HoverStep

SpecHover == InitHover /\ [][NextHover]_vars

----------------------------------------------------------------------------
(* link_completions called again and again on one snapshot, its fan-out
   (into_par_iter, lines 65-71) taken apart: the conversions of one call
   run in any order, each File conversion reads the wall clock itself
   (MDDailyNote::new, line 611), and the results are collected in the order
   of the Referenceables.  The clock goes on while the calls run. *)

TicksPerDay == 2

(* the date of a time zone half a day ahead of the local one *)
LocalToday_OtherZone(now) == (now + 1) \div TicksPerDay

(* line 611: chrono::Local::now().date_naive() *)
LocalToday(now) == now \div TicksPerDay

(* lines 44-69: the Referenceables the fan-out converts *)
FilteredReferenceables(v, doc, pos) ==
    LET referenceables == SelectReferenceableNodes(v)
        single_unresolved_under_cursor == SingleUnresolvedUnderCursor(v, doc, pos)
    IN  SelectSeq(referenceables,
                  LAMBDA r : Some(r) # single_unresolved_under_cursor)

RECURSIVE Collected(_, _)
(* line 71: collect, in the order of the Referenceables *)
Collected(slots, i) ==
    IF i > Len(slots) THEN <<>>
    ELSE (IF slots[i].some THEN <<slots[i].val>> ELSE <<>>) \o Collected(slots, i + 1)

RunNodes ==
    <<Referenceable("File", Txt_a_md, <<>>, <<>>),
      Referenceable("Tag", <<"t">>, <<>>, <<>>),
      Referenceable("File", FormatDate(1) \o MdExt, <<>>, <<>>)>>

RunReferenceLists ==
    {[i \in 1..Len(texts) |-> ReferenceAt(i, Txt_a_md, texts[i])] :
        texts \in SeqsUpTo({[name |-> <<"m">>, infile |-> None]}, MaxReferences)}

InitRuns ==
    /\ pc = "idle"
    /\ vault \in {[nodes |-> RunNodes, references |-> refs] : refs \in RunReferenceLists}
    /\ context_path = Txt_a_md
    /\ position \in {[line |-> 0, character |-> c] : c \in {0, 2}}
    /\ clock \in 0..1
    /\ fanout = None
    /\ runs = <<>>
    /\ today = 0
    /\ line = <<>>
    /\ lineRefs = <<>>
    /\ wiki = None
    /\ md = None
    /\ candidate = None
    /\ item = None
    /\ completions = <<>>
    /\ hoverResult = None
    /\ opened = <<>>

(* lines 42-69: the call up to the fan-out *)
StartRun ==
    /\ pc = "idle"
    /\ Len(runs) < MaxRuns
    /\ LET filtered == FilteredReferenceables(vault, context_path, position)
       IN  fanout' = Some([referenceables |-> filtered,
                           pending |-> 1..Len(filtered),
                           slots |-> [i \in 1..Len(filtered) |-> None],
                           reads |-> {}])
    /\ pc' = "fanout"
    /\ UNCHANGED <<line, context_path, position, lineRefs, wiki, md, candidate, item,
                   vault, today, completions, hoverResult, opened, clock, runs>>

(* line 70: one LinkCompletion::new of the fan-out *)
ConvertOne ==
    /\ pc = "fanout"
    /\ \E i \in fanout.val.pending :
          LET r == fanout.val.referenceables[i]
          IN  fanout' = Some([fanout.val EXCEPT
                  !.pending = @ \ {i},
                  !.slots[i] = LinkCompletionNew(r, LocalToday(clock)),
                  !.reads = IF r.kind = "File" THEN @ \cup {clock} ELSE @])
    /\ UNCHANGED <<pc, line, context_path, position, lineRefs, wiki, md, candidate,
                   item, vault, today, completions, hoverResult, opened, clock, runs>>

(* lines 71-73: the call returns what the fan-out made *)
CollectRun ==
    /\ pc = "fanout"
    /\ fanout.val.pending = {}
    /\ completions' = Collected(fanout.val.slots, 1)
    /\ runs' = Append(runs, [reads |-> fanout.val.reads,
                             completions |-> Collected(fanout.val.slots, 1)])
    /\ fanout' = None
    /\ pc' = "idle"
    /\ UNCHANGED <<line, context_path, position, lineRefs, wiki, md, candidate, item,
                   vault, today, hoverResult, opened, clock>>

(* the wall clock goes on *)
Tick ==
    /\ clock < MaxClock
    /\ clock' = clock + 1
    /\ UNCHANGED <<pc, line, context_path, position, lineRefs, wiki, md, candidate,
                   item, vault, today, completions, hoverResult, opened, fanout, runs>>

NextRuns == StartRun \/ ConvertOne \/ CollectRun \/ Tick

SpecRuns == InitRuns /\ [][NextRuns]_vars

----------------------------------------------------------------------------
(* C1 *)

CandidatesOf(r) == {i \in 1..Len(completions) : completions[i].referenceable = r}

(* C1 (the claim as stated): for every File target whose extension-stripped
   file name parses as a date D, and every today T, the target's candidate
   has match_string "today: <basename>" when D - T = 0, "tomorrow:
   <basename>" when D - T = 1, "yesterday: <basename>" when D - T = -1, and
   is an ordinary File candidate for every other difference. *)
C1_DailyNoteClassification ==
    pc = "completions" =>
        \A D \in Days :
            LET r == Referenceable("File", FormatDate(D) \o MdExt, <<>>, <<>>)
                basename == FormatDate(D)
                delta == D - today
            IN  \A i \in CandidatesOf(r) :
                    CASE delta = 0 ->
                            /\ completions[i].variant = "DailyNote"
                            /\ completions[i].match_string = TodayLabel \o basename
                      [] delta = 1 ->
                            /\ completions[i].variant = "DailyNote"
                            /\ completions[i].match_string = TomorrowLabel \o basename
                      [] delta = -1 ->
                            /\ completions[i].variant = "DailyNote"
                            /\ completions[i].match_string = YesterdayLabel \o basename
                      [] OTHER ->
                            /\ completions[i].variant = "File"
                            /\ completions[i].match_string = basename

(* a file dated the day before today is among the candidates *)
C1_Witness ==
    /\ pc = "completions"
    /\ today = 2
    /\ \E i \in 1..Len(completions) :
          completions[i].referenceable.path = FormatDate(1) \o MdExt

----------------------------------------------------------------------------
(* C3 *)

CountIn(seq, x) == Cardinality({i \in 1..Len(seq) : seq[i] = x})

(* of the enumerated Referenceables, those that make a candidate and have
   fewer candidates than entries *)
RemovedFrom(enumerated) ==
    {r \in {enumerated[i] : i \in 1..Len(enumerated)} :
        /\ LinkCompletionNew(r, today).some
        /\ Cardinality(CandidatesOf(r)) < CountIn(enumerated, r)}

Removed == RemovedFrom(SelectReferenceableNodes(vault))

ReferencesUnderCursor ==
    {i \in 1..Len(vault.references) :
        /\ vault.references[i].path = context_path
        /\ vault.references[i].line = position.line
        /\ vault.references[i].start <= position.character
        /\ vault.references[i].end >= position.character}

OccurrencesOf(text) ==
    {k \in 1..Len(vault.references) : vault.references[k].text = text}

NamesNoNode(text) ==
    \A k \in 1..Len(vault.nodes) : ~NamedBy(vault.nodes[k], text)

(* C3: at most one Referenceable is removed from the enumerated targets,
   and one is removed exactly when the reference under the cursor resolves
   to an unresolved Referenceable with exactly one reference vault-wide,
   which is then the one removed; a resolved target is never removed, and
   an unresolved name with two or more occurrences stays a candidate with
   the cursor inside one of them. *)
C3_DisambiguationExclusion ==
    pc = "completions" =>
        LET enumerated == SelectReferenceableNodes(vault)
            removed == RemovedFrom(enumerated)
            convertible == {i \in 1..Len(enumerated) :
                               LinkCompletionNew(enumerated[i], today).some}
        IN  /\ Cardinality(removed) <= 1
            /\ Len(completions) >= Cardinality(convertible) - 1
            /\ removed # {} <=>
                  \E i \in ReferencesUnderCursor :
                      /\ NamesNoNode(vault.references[i].text)
                      /\ Cardinality(OccurrencesOf(vault.references[i].text)) = 1
            /\ \A i \in ReferencesUnderCursor :
                  /\ removed \subseteq {UnresolvedFor(vault.references[i].text)}
                  /\ Cardinality(OccurrencesOf(vault.references[i].text)) >= 2
                        => removed = {}
            /\ \A r \in removed : IsUnresolved(r)

(* the cursor is inside the only occurrence of an unresolved name while
   another unresolved name keeps its candidate *)
C3_Witness ==
    /\ pc = "completions"
    /\ Len(vault.references) = 2
    /\ Removed = {Referenceable("UnresovledFile", <<"m">>, <<>>, <<>>)}
    /\ \E i \in 1..Len(completions) :
          completions[i].match_string = <<"m", "#", "h">>

(* the cursor is inside one of two occurrences of an unresolved name, which
   keeps its candidate *)
C3_WitnessTwoOccurrences ==
    /\ pc = "completions"
    /\ ReferencesUnderCursor # {}
    /\ \A i \in 1..Len(vault.references) :
          vault.references[i].text = [name |-> <<"m">>, infile |-> None]
    /\ Len(vault.references) = 2
    /\ \E i \in 1..Len(completions) : completions[i].match_string = <<"m">>

----------------------------------------------------------------------------
(* Reading a markdown text edit back: its new text is
   "[${1:" placeholder "}](" target ")" *)

(* the link target: what stands between the last "(" and the closing ")" *)
TargetOf(new_text) ==
    SubSeq(new_text, LastIndexOf(new_text, "(") + 1, Len(new_text) - 1)

(* the placeholder's default text: what stands between "${1:" and the "}"
   before "](" *)
PlaceholderOf(new_text) ==
    SubSeq(new_text, 6, LastIndexOf(new_text, "(") - 3)

(* the file basename of a candidate's Referenceable *)
Basename(completion) == FileStem(completion.referenceable.path).val

----------------------------------------------------------------------------
(* C2 *)

(* C2 (the claim as stated), markdown completer: for every DailyNote
   candidate the link target of the edit's new text is the plain file
   basename (in angle brackets when it holds a blank), never the
   relative-day label. *)
C2_DailyNoteInsertsBasename ==
    (pc = "item" /\ md.some /\ candidate.val.variant = "DailyNote") =>
        /\ TargetOf(item.val.text_edit.new_text)
              = MdLinkRefText(Basename(candidate.val))
        /\ TargetOf(item.val.text_edit.new_text)
              # MdLinkRefText(candidate.val.match_string)

(* C2, wiki completer: the new text of a DailyNote candidate's edit is the
   plain file basename. *)
C2_WikiDailyNoteInsertsBasename ==
    (pc = "item" /\ wiki.some /\ candidate.val.variant = "DailyNote") =>
        item.val.text_edit.new_text = Basename(candidate.val)

C2_Witness ==
    /\ pc = "item"
    /\ md.some
    /\ candidate.val.variant = "DailyNote"
    /\ item.val.label = TodayLabel \o FormatDate(0)

----------------------------------------------------------------------------
(* C6 *)

MdLinksUnderCursor ==
    {i \in 1..Len(lineRefs) :
        /\ lineRefs[i].kind \in LinkReferenceKinds
        /\ lineRefs[i].start <= position.character
        /\ lineRefs[i].end >= position.character}

(* C6 (the claim as stated): where the partial-link pattern matches, if a
   complete file/heading/block markdown link of the line overlaps the
   cursor, full_range is that occurrence's range; otherwise, also when an
   occurrence of another kind overlaps, full_range is the regex match range,
   extended by one character at its end exactly when the character at the
   cursor is ")". *)
C6_FullRangeAsClaimed ==
    (pc # "line" /\ md.some) =>
        LET match == md.val.partial_link.range
        IN  IF MdLinksUnderCursor # {}
            THEN \E i \in MdLinksUnderCursor :
                    md.val.full_range = LineRange(lineRefs[i].start, lineRefs[i].end)
            ELSE IF GetAt(line, position.character) = Some(")")
            THEN md.val.full_range = LineRange(match.start, match.end + 1)
            ELSE md.val.full_range = match

FirstUnderCursor ==
    CHOOSE i \in 1..Len(lineRefs) :
        /\ lineRefs[i].start <= position.character
        /\ lineRefs[i].end >= position.character
        /\ \A k \in 1..(i - 1) :
              lineRefs[k].start > position.character
              \/ lineRefs[k].end < position.character

AnyUnderCursor ==
    \E i \in 1..Len(lineRefs) :
        lineRefs[i].start <= position.character /\ lineRefs[i].end >= position.character

(* C6 (amended): where the partial-link pattern matches, if the first
   occurrence of the line that overlaps the cursor is a file/heading/block
   markdown link, full_range is that occurrence's range; if no occurrence of
   any kind overlaps the cursor and the character at the cursor is ")",
   full_range is the regex match range extended by one character at its
   end; otherwise, also when an occurrence of another kind overlaps and the
   cursor stands before ")", full_range is the regex match range. *)
C6_FullRange ==
    (pc # "line" /\ md.some) =>
        LET match == md.val.partial_link.range
        IN  IF AnyUnderCursor /\ lineRefs[FirstUnderCursor].kind \in LinkReferenceKinds
            THEN md.val.full_range = LineRange(lineRefs[FirstUnderCursor].start,
                                               lineRefs[FirstUnderCursor].end)
            ELSE IF ~AnyUnderCursor /\ GetAt(line, position.character) = Some(")")
            THEN md.val.full_range = LineRange(match.start, match.end + 1)
            ELSE md.val.full_range = match

(* a tag, and no markdown link, overlaps the cursor, which stands before ")" *)
C6_Witness ==
    /\ pc = "constructed"
    /\ md.some
    /\ MdLinksUnderCursor = {}
    /\ ReferenceUnderCursor(lineRefs, position.character).some
    /\ GetAt(line, position.character) = Some(")")

----------------------------------------------------------------------------
(* C7 *)

(* C7 (the claim as stated): the new text of a markdown edit is
   "[${1:" display "}](" target ")" where target is the candidate's refname,
   in angle brackets exactly when it holds a blank, and the edit's range is
   full_range on the cursor's line. *)
C7_MarkdownEditAsClaimed ==
    pc = "item" =>
        LET edit == item.val.text_edit
            refname == Refname(candidate.val)
            target == IF Contains(refname, " ")
                      THEN <<"<">> \o refname \o <<">">>
                      ELSE refname
            tail == <<"}", "]", "(">> \o target \o <<")">>
            n == Len(edit.new_text)
        IN  /\ n >= 5 + Len(tail)
            /\ SubSeq(edit.new_text, 1, 5) = <<"[", "$", "{", "1", ":">>
            /\ SubSeq(edit.new_text, n - Len(tail) + 1, n) = tail
            /\ edit.range.start = [line |-> position.line,
                                   character |-> md.val.full_range.start]
            /\ edit.range.end = [line |-> position.line,
                                 character |-> md.val.full_range.end]

(* the worked example's shape: a refname with a blank, on line 1 *)
C7_Witness ==
    /\ pc = "item"
    /\ position.line = 1
    /\ candidate.val.variant = "File"
    /\ TargetOf(item.val.text_edit.new_text) = <<"<", "a", " ", "b", ">">>

----------------------------------------------------------------------------
(* C8 *)

(* C8 (the claim as stated): with an empty typed display the placeholder is
   the heading text for a Heading, the infile ref for an Unresolved that has
   one, and empty for every other candidate; with a typed display it is that
   display. *)
C8_DefaultDisplayAsClaimed ==
    pc = "item" =>
        LET c == candidate.val
            typed == md.val.display.text
            shown == PlaceholderOf(item.val.text_edit.new_text)
        IN  IF typed # <<>> THEN shown = typed
            ELSE IF c.variant = "Heading" THEN shown = c.referenceable.text
            ELSE IF c.variant = "Unresolved" /\ c.infile_ref.some
            THEN shown = c.infile_ref.val
            ELSE shown = <<>>

(* C8 (amended): as claimed, except that a File candidate whose file has
   headings gets the text of the file's first heading. *)
C8_DefaultDisplay ==
    pc = "item" =>
        LET c == candidate.val
            typed == md.val.display.text
            shown == PlaceholderOf(item.val.text_edit.new_text)
        IN  IF typed # <<>> THEN shown = typed
            ELSE IF c.variant = "Heading" THEN shown = c.referenceable.text
            ELSE IF c.variant = "Unresolved" /\ c.infile_ref.some
            THEN shown = c.infile_ref.val
            ELSE IF c.variant = "File" /\ Len(c.referenceable.headings) > 0
            THEN shown = c.referenceable.headings[1]
            ELSE shown = <<>>

C8_Witness ==
    /\ pc = "item"
    /\ md.val.display.text = <<>>
    /\ candidate.val.variant = "File"
    /\ Len(candidate.val.referenceable.headings) = 2
    /\ PlaceholderOf(item.val.text_edit.new_text) = <<"h">>

----------------------------------------------------------------------------
(* C9 *)

CharsAt(range) == SubSeq(line, range.start + 1, range.end)

(* C9 (the claim as stated): the ends of the replacement range are
   character offsets into the line, so that the characters from its start to
   the cursor are the matched partial-link text, and the display, path and
   infile-ref ranges index the characters of their captured strings. *)
C9_RangesAreCharacterOffsets ==
    (pc # "line" /\ md.some) =>
        /\ md.val.full_range.start <= position.character
        /\ SubSeq(line, md.val.full_range.start + 1, position.character)
              = md.val.partial_link.text
        /\ md.val.full_range.end >= position.character
        /\ md.val.full_range.end <= Len(line)
        /\ CharsAt(md.val.display.range) = md.val.display.text
        /\ CharsAt(md.val.path.range) = md.val.path.text
        /\ md.val.infile_ref.some =>
              CharsAt(md.val.infile_ref.val.range)
                 = (IF md.val.infile_ref.val.kind = "BlockRef" THEN <<"^">> ELSE <<>>)
                   \o md.val.infile_ref.val.text

(* a character of two bytes stands before the partial link *)
C9_Witness ==
    /\ pc = "constructed"
    /\ md.some
    /\ line[1] = "é"
    /\ md.val.partial_link.range.start = 2

----------------------------------------------------------------------------
(* C10 *)

ContainingReferences ==
    IF context_path \in DOMAIN vault.references
    THEN {i \in 1..Len(vault.references[context_path]) :
            LET r == vault.references[context_path][i].range
            IN  /\ r.start.line <= position.line /\ position.line <= r.end.line
                /\ r.start.character <= position.character
                /\ position.character <= r.end.character}
    ELSE {}

ContainingReference ==
    vault.references[context_path][CHOOSE i \in ContainingReferences :
                                       \A k \in ContainingReferences : i <= k]

TargetsOfReference(reference) ==
    {i \in 1..Len(vault.nodes) : vault.nodes[i].name = reference.name}

TargetOfReference(reference) ==
    vault.nodes[CHOOSE i \in TargetsOfReference(reference) :
                    \A k \in TargetsOfReference(reference) : i <= k]

DocLength(doc) == IF doc \in DOMAIN vault.docs THEN Len(vault.docs[doc]) ELSE 0

Smaller(a, b) == IF a <= b THEN a ELSE b

RECURSIVE ConcatLines(_, _, _)
(* lines from..to (0-based) of a document, every one within it, in order *)
ConcatLines(doc, from, to) ==
    IF from > to THEN <<>>
    ELSE vault.docs[doc][from + 1] \o ConcatLines(doc, from + 1, to)

PreviewBody(target) ==
    ConcatLines(target.path, target.range.start.line,
                Smaller(target.range.end.line + 10, DocLength(target.path) - 1))

PrefixOf(target) ==
    CASE target.kind = "File" -> FilePreview
      [] target.kind = "Heading" -> HeadingPreview
      [] target.kind = "IndexedBlock" -> BlockPreview
      [] OTHER -> Preview

HoverResolves ==
    /\ ContainingReferences # {}
    /\ ContainingReference.kind = "Link"
    /\ TargetsOfReference(ContainingReference) # {}

(* C10: when the reference containing the cursor, both bounds included, is
   a link that resolves to a target with anchor lines s..e, the hover is
   the prefix of the target's kind followed by lines s..e+10 of the
   target's document, in order and unchanged, those past its end skipped;
   when no reference contains the cursor, it is no link, or it resolves
   to no target, the hover is empty. *)
C10_HoverPreviewWindow ==
    pc = "hovered" =>
        IF HoverResolves
        THEN LET target == TargetOfReference(ContainingReference)
             IN  /\ hoverResult.some
                 /\ hoverResult.val.value = PrefixOf(target) \o PreviewBody(target)
        ELSE hoverResult = None

(* a link to a file whose document ends within the ten lines after the
   anchor, hovered at the last character of the reference *)
C10_Witness ==
    /\ pc = "hovered"
    /\ HoverResolves
    /\ position.character = ContainingReference.range.end.character
    /\ LET target == TargetOfReference(ContainingReference)
       IN  /\ target.kind = "File"
           /\ target.range.end.line > target.range.start.line
           /\ DocLength(target.path) <= target.range.end.line + 10
           /\ hoverResult.some

(* a link to a heading whose document goes on past the window *)
C10_WitnessCutOff ==
    /\ pc = "hovered"
    /\ HoverResolves
    /\ LET target == TargetOfReference(ContainingReference)
       IN  /\ target.kind = "Heading"
           /\ DocLength(target.path) > target.range.end.line + 11
           /\ hoverResult.some

----------------------------------------------------------------------------
(* C11 *)

LinkTargetKinds ==
    {"File", "Heading", "IndexedBlock"} \cup UnresolvedKinds

(* the name parts the kind's match_string is made of can be had: a resolved
   target needs the stem of its file name, an unresolved one nothing more
   than it holds; a Referenceable of another kind has no match_string *)
NamePartsObtainable(r) ==
    /\ r.kind \in LinkTargetKinds
    /\ ~IsUnresolved(r) => r.path # <<>>

(* the Referenceable the request leaves out, as a set *)
Excluded ==
    {UnresolvedFor(vault.references[i].text) :
        i \in {k \in ReferencesUnderCursor :
                  /\ NamesNoNode(vault.references[k].text)
                  /\ Cardinality(OccurrencesOf(vault.references[k].text)) = 1}}

(* the snapshot without the nodes that make no candidate *)
WithoutUnconvertible(v) ==
    [v EXCEPT !.nodes = SelectSeq(v.nodes, NamePartsObtainable)]

(* C11: link_completions returns exactly one candidate for each enumerated
   Referenceable that is not the excluded one and whose name parts can be
   had, and none for any other; the Referenceables that make no candidate
   neither remove nor alter the candidates of the others, which are those
   the same request returns on the snapshot without them, and the request
   always returns its list. *)
C11_FailureIsLocal ==
    pc = "completions" =>
        LET enumerated == SelectReferenceableNodes(vault)
            excluded == Excluded
            kept == {i \in 1..Len(enumerated) :
                        /\ enumerated[i] \notin excluded
                        /\ NamePartsObtainable(enumerated[i])}
        IN  /\ \A i \in 1..Len(enumerated) :
                  Cardinality(CandidatesOf(enumerated[i]))
                      = IF i \in kept THEN 1 ELSE 0
            /\ Len(completions) = Cardinality(kept)
            /\ completions
                  = LinkCompletions(WithoutUnconvertible(vault), context_path,
                                    position, today)

(* a file without a name and a tag are enumerated ahead of the dated files,
   which have their candidates, while the unresolved name under the cursor
   is left out *)
C11_Witness ==
    /\ pc = "completions"
    /\ LET enumerated == SelectReferenceableNodes(vault)
       IN  /\ \E i, j, k \in 1..Len(enumerated) :
                 /\ i < k /\ j < k
                 /\ enumerated[i].kind = "File" /\ enumerated[i].path = <<>>
                 /\ enumerated[j].kind = "Tag"
                 /\ CandidatesOf(enumerated[i]) = {}
                 /\ CandidatesOf(enumerated[j]) = {}
                 /\ CandidatesOf(enumerated[k]) # {}
           /\ Excluded # {}
           /\ Len(completions) = Len(enumerated) - 3

----------------------------------------------------------------------------
(* C12 *)

MatchStringsOf(run) ==
    {run.completions[i].match_string : i \in 1..Len(run.completions)}

DatesRead(run) == {c \div TicksPerDay : c \in run.reads}

(* C12 (the claim as stated): two runs of link_completions with the same
   cursor against the same snapshot yield the same set of match_strings,
   whatever else differs between them. *)
C12_SameMatchStrings ==
    \A a, b \in 1..Len(runs) : MatchStringsOf(runs[a]) = MatchStringsOf(runs[b])

(* C12: two runs of link_completions with the same cursor against the same
   snapshot yield the same set of match_strings, in whatever order their
   conversions ran, when every reading of the clock in the two runs falls
   on the same local date. *)
C12_SameMatchStringsOnOneDate ==
    \A a, b \in 1..Len(runs) :
        Cardinality(DatesRead(runs[a]) \cup DatesRead(runs[b])) <= 1
            => MatchStringsOf(runs[a]) = MatchStringsOf(runs[b])

(* two runs at different times of the day of a dated file, each with the
   file's candidate labelled today *)
C12_Witness ==
    /\ Len(runs) = 2
    /\ DatesRead(runs[1]) = {1}
    /\ DatesRead(runs[2]) = {1}
    /\ runs[1].reads # runs[2].reads
    /\ \A a \in 1..2 : TodayLabel \o FormatDate(1) \in MatchStringsOf(runs[a])

----------------------------------------------------------------------------
(* C13 *)

(* the characters of the line at the Rust offsets from..to, to excluded *)
Between(l, from, to) == [k \in 1..(to - from) |-> l[from + k]]

(* C13: every constructed WikiLinkCompleter has index + 1 <= character and
   a captured fragment without "]"; the range of its edit, from index + 1
   to the cursor on the cursor's line, covers exactly the fragment: its
   length is the fragment's, its characters are the fragment's, and the two
   characters before its start are "[[".  So the last arm of completions,
   for a fragment that holds a "]", is never taken. *)
C13_WikiCompleterWellFormed ==
    wiki.some =>
        LET w == wiki.val
        IN  /\ w.index + 1 <= w.character
            /\ w.character = position.character
            /\ w.character <= Len(line)
            /\ ~Contains(w.cmp_text, "]")
            /\ Len(w.cmp_text) = w.character - (w.index + 1)
            /\ w.cmp_text = Between(line, w.index + 1, w.character)
            /\ w.index >= 1
            /\ line[w.index] = "[" /\ line[w.index + 1] = "["
            /\ ~(w.cmp_text # <<>> /\ Contains(w.cmp_text, "]"))
            /\ item.some =>
                  /\ item.val.text_edit.range.start
                        = [line |-> position.line, character |-> w.index + 1]
                  /\ item.val.text_edit.range.end
                        = [line |-> position.line, character |-> w.character]

(* an item for a completer built after a closed link on the same line, its
   fragment not empty *)
C13_Witness ==
    /\ pc = "item"
    /\ wiki.some
    /\ item.some
    /\ wiki.val.cmp_text # <<>>
    /\ Contains(Between(line, 0, wiki.val.index), "]")

(* a completer with an empty fragment, the cursor right after "[[" *)
C13_WitnessEmptyFragment ==
    /\ wiki.some
    /\ wiki.val.cmp_text = <<>>
    /\ wiki.val.index + 1 = wiki.val.character

====
